---- MODULE Spec2Model ----
(***************************************************************************)
(* Model of the Streamlit finance dashboard in src/main.py.                *)
(*                                                                         *)
(* One script run is: module startup (lines 13-22), then main() (lines     *)
(* 76-162): load and categorize the uploaded CSV, then the widget whose    *)
(* button triggered the run (add category, or save the edited grid), then  *)
(* the summary.  Every user interaction starts a new script run.           *)
(*                                                                         *)
(* Text is a sequence of one-character strings so that lower() and strip() *)
(* are computed.  NaN is the float pandas puts in an empty Details cell.   *)
(* An uploaded file is its set of column names (already stripped, line 53) *)
(* and its rows; a cell of a column the file lacks holds NoColumn, and       *)
(* reading it is the KeyError of the lookup.                                *)
(***************************************************************************)
EXTENDS Integers, Sequences, FiniteSets, TLC

VARIABLES
    categories,      \* st.session_state.categories: sequence of [name, keywords], insertion order
    in_session,      \* "categories" in st.session_state
    category_file,   \* categories.json on disk
    uploaded_file,   \* the file held by st.file_uploader: [present, columns, rows]
    debits_df,       \* st.session_state.debits_df: sequence of rows with their Category
    edited_df,       \* the grid returned by st.data_editor in a run whose save button is set
    idx,             \* position of the loop of lines 124-132
    pc,              \* position of the script run
    fault,           \* exception that ended the run ("none" when there is none), or the st.error report
    ret,             \* outcome of the last add_keywprd_to_category call of the run
    category_totals, \* the summary table of lines 135-137, once the run has computed it
    learned          \* history: <<normalized details, category>> of the edits processed since the last load

vars == <<categories, in_session, category_file, uploaded_file, debits_df,
          edited_df, idx, pc, fault, ret, category_totals, learned>>

----------------------------------------------------------------------------
(* Bounds and input pools *)

MaxRows == 1
MaxKeywords == 3
MaxSummaryRows == 3

NaN == <<"NaN">>

DetailsPool == { <<"S">>, <<" ", "s", " ">>, <<"s", "t">>, <<" ">>, NaN }

NewCategoryNames == {"Food", "Coffee"}

\* The value of a grid cell the reviewer cleared (Python None).
NoneCategory == "None"

AllColumns == {"Date", "Details", "Amount", "Debit/Credit"}

\* the cell of a column the file does not have
NoColumn == <<"KeyError">>

\* "05 Jan 2024" and "1,234", as the bank writes them
ValidDate == << <<"0", "5">>, " ", "Jan", " ", <<"2", "0", "2", "4">> >>
AmountWithComma == <<"1", ",", "2", "3", "4">>

\* the statements uploaded in the session: every column, every cell well formed
DebitRows ==
    { [Date |-> ValidDate, Details |-> d, Amount |-> AmountWithComma, DebitCredit |-> "Debit"] :
          d \in DetailsPool }

Uploads ==
    { [columns |-> AllColumns, rows |-> rows] :
          rows \in UNION { [1..n -> DebitRows] : n \in 1..MaxRows } }

----------------------------------------------------------------------------
(* str.lower() and str.strip() *)

LowerChar(c) == CASE c = "S" -> "s" [] c = "T" -> "t" [] OTHER -> c

Lower(s) == [i \in 1..Len(s) |-> LowerChar(s[i])]

RECURSIVE LStrip(_)
LStrip(s) == IF s # <<>> /\ Head(s) = " " THEN LStrip(Tail(s)) ELSE s

RECURSIVE RStrip(_)
RStrip(s) == IF s # <<>> /\ s[Len(s)] = " " THEN RStrip(SubSeq(s, 1, Len(s) - 1)) ELSE s

Strip(s) == RStrip(LStrip(s))

\* x.lower().strip() of lines 37 and 42
Normalize(s) == Strip(Lower(s))

----------------------------------------------------------------------------
(* The rule store: a dict in insertion order *)

\* a default store without the reserved category
DefaultCategoriesEmpty == <<>>

DefaultCategories == << [name |-> "General", keywords |-> <<>>] >>

Keys(store) == { store[i].name : i \in DOMAIN store }

IndexOf(store, name) == CHOOSE i \in DOMAIN store : store[i].name = name

KeywordsOf(store, name) == store[IndexOf(store, name)].keywords

Elems(seq) == { seq[i] : i \in DOMAIN seq }

RECURSIVE TotalKeywords(_)
TotalKeywords(store) ==
    IF store = <<>> THEN 0
    ELSE Len(Head(store).keywords) + TotalKeywords(Tail(store))

\* d[k] = v on a dict: a present key keeps its place, a new key goes last
DictSet(d, k, v) ==
    IF k \in Keys(d)
    THEN [i \in DOMAIN d |-> IF d[i].name = k THEN [name |-> k, keywords |-> v] ELSE d[i]]
    ELSE Append(d, [name |-> k, keywords |-> v])

\* json.dump of the dict: the object's members, in the dict's order
JsonDump(store) == [i \in DOMAIN store |-> <<store[i].name, store[i].keywords>>]

\* json.load of an object: members are inserted in the order of the text
RECURSIVE JsonLoad(_)
JsonLoad(members) ==
    IF members = <<>> THEN <<>>
    ELSE LET n == Len(members)
         IN DictSet(JsonLoad(SubSeq(members, 1, n - 1)), members[n][1], members[n][2])

FileMissing == [state |-> "missing", members |-> <<>>]
FileMalformed == [state |-> "malformed", members |-> <<>>]

\* save_categories(): the file is rewritten from the session's dict
SaveCategories(store) == [state |-> "json", members |-> JsonDump(store)]

----------------------------------------------------------------------------
(* categorize_transaction, lines 29-47 *)

\* a row that already carries a category keeps it
ResetCategoryIfAbsent(rows) ==
    [i \in DOMAIN rows |->
        [Date |-> rows[i].Date, Details |-> rows[i].Details, Amount |-> rows[i].Amount,
         DebitCredit |-> rows[i].DebitCredit,
         Category |-> IF "Category" \in DOMAIN rows[i] THEN rows[i].Category ELSE "General"]]

\* line 30: df["Category"] = "General"
ResetCategory(rows) ==
    [i \in DOMAIN rows |->
        [Date |-> rows[i].Date, Details |-> rows[i].Details, Amount |-> rows[i].Amount,
         DebitCredit |-> rows[i].DebitCredit, Category |-> "General"]]

\* line 34: the categories the loop passes over
SkipCategory(category, keywords) == category = "General" \/ keywords = <<>>

\* a is a contiguous part of b
IsSubstring(a, b) ==
    \E i \in 0..(Len(b) - Len(a)) : SubSeq(b, i + 1, i + Len(a)) = a

\* the test written as containment of a keyword in the details
DetailsMatchSubstring(details, keywords) ==
    \E k \in Elems(keywords) : IsSubstring(Normalize(k), Normalize(details))

\* lines 37, 42, 44: details in lowered_keywords
DetailsMatch(details, keywords) ==
    Normalize(details) \in { Normalize(k) : k \in Elems(keywords) }

\* a match that leaves an earlier match alone
CategorizeRowFirstWins(row, category, keywords) ==
    IF row.Category = "General"
          /\ Normalize(row.Details) \in { Normalize(k) : k \in Elems(keywords) }
    THEN [row EXCEPT !.Category = category]
    ELSE row

\* lines 40-46, one row: a match overwrites whatever the row carried
CategorizeRow(row, category, keywords) ==
    IF DetailsMatch(row.Details, keywords)
    THEN [row EXCEPT !.Category = category]
    ELSE row

\* lines 33-46 from the c-th category on.  As soon as one category is not
\* passed over, row["Details"] raises KeyError in a file without the column
\* and row["Details"].lower() raises AttributeError on a NaN cell.
RECURSIVE CategorizeFrom(_, _, _)
CategorizeFrom(res, store, c) ==
    IF c > Len(store) \/ ~res.ok THEN res
    ELSE IF SkipCategory(store[c].name, store[c].keywords)
         THEN CategorizeFrom(res, store, c + 1)
         ELSE IF \E i \in DOMAIN res.df : res.df[i].Details \in {NaN, NoColumn}
              THEN [ok |-> FALSE, df |-> <<>>]
              ELSE CategorizeFrom(
                       [ok |-> TRUE,
                        df |-> [i \in DOMAIN res.df |->
                                   CategorizeRow(res.df[i], store[c].name, store[c].keywords)]],
                       store, c + 1)

categorize_transaction(rows, store) ==
    CategorizeFrom([ok |-> TRUE, df |-> ResetCategory(rows)], store, 1)

----------------------------------------------------------------------------
(* load_transactions, lines 49-62 *)

\* lines 51-53: the table read from the file
read_csv(file) ==
    [i \in DOMAIN file.rows |->
        [Date |-> IF "Date" \in file.columns THEN file.rows[i].Date ELSE NoColumn,
         Details |-> IF "Details" \in file.columns THEN file.rows[i].Details ELSE NoColumn,
         Amount |-> IF "Amount" \in file.columns THEN file.rows[i].Amount ELSE NoColumn,
         DebitCredit |-> IF "Debit/Credit" \in file.columns
                         THEN file.rows[i].DebitCredit ELSE NoColumn]]

DigitValue(c) ==
    CASE c = "0" -> 0 [] c = "1" -> 1 [] c = "2" -> 2 [] c = "3" -> 3 [] c = "4" -> 4
      [] c = "5" -> 5 [] c = "6" -> 6 [] c = "7" -> 7 [] c = "8" -> 8 [] c = "9" -> 9

IsDigit(c) == c \in {"0", "1", "2", "3", "4", "5", "6", "7", "8", "9"}

\* the text float() takes, among texts of digits, commas and letters
IsNumber(text) == text # <<>> /\ \A i \in DOMAIN text : IsDigit(text[i])

RECURSIVE DecimalValue(_)
DecimalValue(text) ==
    IF text = <<>> THEN 0
    ELSE 10 * DecimalValue(SubSeq(text, 1, Len(text) - 1)) + DigitValue(text[Len(text)])

\* line 55: .str.replace(",", "")
RemoveCommas(text) == SelectSeq(text, LAMBDA c : c # ",")

\* read_csv makes a column of plain numbers numeric, and .str of line 55 then
\* raises AttributeError; one cell that is no plain number keeps the text
AmountColumnIsText(rows) == \E i \in DOMAIN rows : ~IsNumber(rows[i].Amount)

\* line 55: .astype(float)
AmountParses(text) == IsNumber(RemoveCommas(text))
AmountValue(text) == DecimalValue(RemoveCommas(text))

MonthNumber(b) ==
    CASE b = "Jan" -> 1 [] b = "Feb" -> 2 [] b = "Mar" -> 3 [] b = "Apr" -> 4
      [] b = "May" -> 5 [] b = "Jun" -> 6 [] b = "Jul" -> 7 [] b = "Aug" -> 8
      [] b = "Sep" -> 9 [] b = "Oct" -> 10 [] b = "Nov" -> 11 [] b = "Dec" -> 12
      [] OTHER -> 0

\* line 57: format "%d %b %Y" on a text given as its tokens: runs of digits,
\* words and separators
DateParses(text) ==
    /\ Len(text) = 5
    /\ text[2] = " " /\ text[4] = " "
    /\ IsNumber(text[1]) /\ Len(text[1]) <= 2 /\ DecimalValue(text[1]) \in 1..31
    /\ MonthNumber(text[3]) # 0
    /\ IsNumber(text[5]) /\ Len(text[5]) = 4

DateValue(text) == <<DecimalValue(text[5]), MonthNumber(text[3]), DecimalValue(text[1])>>

\* lines 50-62: every exception is reported with st.error and None returned
load_transactions(file, store) ==
    LET df == read_csv(file)
        failed == [ok |-> FALSE, df |-> <<>>]
    IN IF "Amount" \notin file.columns THEN failed
       ELSE IF ~AmountColumnIsText(df) THEN failed
       ELSE IF \E i \in DOMAIN df : ~AmountParses(df[i].Amount) THEN failed
       ELSE IF "Date" \notin file.columns THEN failed
       ELSE IF \E i \in DOMAIN df : ~DateParses(df[i].Date) THEN failed
       ELSE categorize_transaction(
                [i \in DOMAIN df |->
                    [df[i] EXCEPT !.Amount = AmountValue(df[i].Amount),
                                  !.Date = DateValue(df[i].Date)]],
                store)

----------------------------------------------------------------------------
(* add_keywprd_to_category, lines 64-73 *)

\* the append without the test for a keyword already listed
add_keyword_unchecked(store, file, category, keyword) ==
    IF keyword = NaN
    THEN [categories |-> store, category_file |-> file, ret |-> "AttributeError"]
    ELSE LET kw == Strip(keyword)
         IN IF kw = <<>>
            THEN [categories |-> store, category_file |-> file, ret |-> "False"]
            ELSE IF category \notin Keys(store)
            THEN [categories |-> store, category_file |-> file, ret |-> "KeyError"]
            ELSE LET appended == DictSet(store, category,
                                         Append(KeywordsOf(store, category), kw))
                 IN [categories |-> appended,
                     category_file |-> SaveCategories(appended),
                     ret |-> "True"]

\* the keyword stored as given, without the strip of line 66
add_keyword_unstripped(store, file, category, keyword) ==
    IF keyword = NaN
    THEN [categories |-> store, category_file |-> file, ret |-> "AttributeError"]
    ELSE IF Strip(keyword) = <<>>
    THEN [categories |-> store, category_file |-> file, ret |-> "False"]
    ELSE IF category \notin Keys(store)
    THEN [categories |-> store, category_file |-> file, ret |-> "KeyError"]
    ELSE IF keyword \in Elems(KeywordsOf(store, category))
    THEN [categories |-> store, category_file |-> file, ret |-> "False"]
    ELSE LET appended == DictSet(store, category,
                                 Append(KeywordsOf(store, category), keyword))
         IN [categories |-> appended,
             category_file |-> SaveCategories(appended),
             ret |-> "True"]

\* the category's list assigned the one keyword instead of appended to
add_keyword_replacing(store, file, category, keyword) ==
    IF keyword = NaN
    THEN [categories |-> store, category_file |-> file, ret |-> "AttributeError"]
    ELSE LET kw == Strip(keyword)
         IN IF kw = <<>>
            THEN [categories |-> store, category_file |-> file, ret |-> "False"]
            ELSE IF category \notin Keys(store)
            THEN [categories |-> store, category_file |-> file, ret |-> "KeyError"]
            ELSE IF kw \in Elems(KeywordsOf(store, category))
            THEN [categories |-> store, category_file |-> file, ret |-> "False"]
            ELSE LET replaced == DictSet(store, category, <<kw>>)
                 IN [categories |-> replaced,
                     category_file |-> SaveCategories(replaced),
                     ret |-> "True"]

add_keywprd_to_category(store, file, category, keyword) ==
    IF keyword = NaN
    THEN [categories |-> store, category_file |-> file, ret |-> "AttributeError"]
    ELSE LET kw == Strip(keyword)
         IN IF kw = <<>>
            THEN [categories |-> store, category_file |-> file, ret |-> "False"]
            ELSE IF category \notin Keys(store)
            THEN [categories |-> store, category_file |-> file, ret |-> "KeyError"]
            ELSE IF kw \in Elems(KeywordsOf(store, category))
            THEN [categories |-> store, category_file |-> file, ret |-> "False"]
            ELSE LET appended == DictSet(store, category,
                                         Append(KeywordsOf(store, category), kw))
                 IN [categories |-> appended,
                     category_file |-> SaveCategories(appended),
                     ret |-> "True"]

\* the entry set to an empty list whether or not the name is present
add_category_unguarded(store, file, new_category) ==
    LET added == DictSet(store, new_category, <<>>)
    IN [categories |-> added, category_file |-> SaveCategories(added),
        added |-> new_category \notin Keys(store)]

\* the new entry without the rewrite of the file
add_category_unsaved(store, file, new_category) ==
    IF new_category \notin Keys(store)
    THEN [categories |-> DictSet(store, new_category, <<>>),
          category_file |-> file, added |-> TRUE]
    ELSE [categories |-> store, category_file |-> file, added |-> FALSE]

\* lines 100-102: a new name gets an empty list and the file is rewritten
add_category(store, file, new_category) ==
    IF new_category \notin Keys(store)
    THEN LET added == DictSet(store, new_category, <<>>)
         IN [categories |-> added, category_file |-> SaveCategories(added), added |-> TRUE]
    ELSE [categories |-> store, category_file |-> file, added |-> FALSE]

----------------------------------------------------------------------------
(* The summary, lines 135-137 *)

\* line 135: groupby("Category")["Amount"].sum(), as the mapping from each
\* group's key to its total; a row whose Category is None is in no group
RECURSIVE groupby_sum(_)
groupby_sum(df) ==
    IF df = <<>> THEN [c \in {} |-> 0]
    ELSE LET n == Len(df)
             rest == groupby_sum(SubSeq(df, 1, n - 1))
             category == df[n].Category
         IN IF category = NoneCategory THEN rest
            ELSE [c \in DOMAIN rest \cup {category} |->
                     (IF c \in DOMAIN rest THEN rest[c] ELSE 0)
                         + (IF c = category THEN df[n].Amount ELSE 0)]

\* the rows in order of increasing total
sort_values_ascending(totals) ==
    { order \in [1..Cardinality(DOMAIN totals) -> DOMAIN totals] :
          /\ \A i, j \in DOMAIN order : i # j => order[i] # order[j]
          /\ \A i, j \in DOMAIN order : i < j => totals[order[i]] <= totals[order[j]] }

\* line 137: sort_values(by="Amount", ascending=False); the order of rows with
\* equal totals is not specified
sort_values(totals) ==
    { order \in [1..Cardinality(DOMAIN totals) -> DOMAIN totals] :
          /\ \A i, j \in DOMAIN order : i # j => order[i] # order[j]
          /\ \A i, j \in DOMAIN order : i < j => totals[order[i]] >= totals[order[j]] }

\* lines 135-137: the tables category_totals can be for the table df
CategoryTotals(df) ==
    LET totals == groupby_sum(df)
    IN { [i \in DOMAIN order |-> [Category |-> order[i], Amount |-> totals[order[i]]]] :
             order \in sort_values(totals) }

----------------------------------------------------------------------------
(* The script run *)

NoUpload == [present |-> FALSE, columns |-> {}, rows |-> <<>>]

Init ==
    /\ categories = <<>>
    /\ in_session = FALSE
    /\ category_file \in {FileMissing, FileMalformed}
    /\ uploaded_file = NoUpload
    /\ debits_df = <<>>
    /\ edited_df = <<>>
    /\ idx = 0
    /\ pc = "startup"
    /\ fault = "none"
    /\ ret = "none"
    /\ category_totals = <<>>
    /\ learned = {}

\* lines 13-22
Startup ==
    /\ pc = "startup"
    /\ in_session' = TRUE
    /\ LET session == IF in_session THEN categories ELSE DefaultCategories
       IN CASE category_file.state = "missing" ->
                 /\ categories' = session
                 /\ pc' = "main"
                 /\ fault' = fault
            [] category_file.state = "json" ->
                 /\ categories' = JsonLoad(category_file.members)
                 /\ pc' = "main"
                 /\ fault' = fault
            [] category_file.state = "malformed" ->
                 /\ categories' = session
                 /\ pc' = "idle"
                 /\ fault' = "JSONDecodeError"
    /\ UNCHANGED <<category_file, uploaded_file, debits_df, edited_df, idx, ret,
                   category_totals, learned>>

\* line 108: the columns the grid selects from the table
GridColumns == {"Date", "Details", "Amount"}

\* lines 79-89
Main ==
    /\ pc = "main"
    /\ IF ~uploaded_file.present
       THEN /\ pc' = "idle"
            /\ UNCHANGED <<debits_df, fault, learned>>
       ELSE LET df == load_transactions(uploaded_file, categories)
            IN IF ~df.ok
               THEN /\ pc' = "idle"
                    /\ fault' = "st.error"
                    /\ UNCHANGED <<debits_df, learned>>
               ELSE IF "Debit/Credit" \notin uploaded_file.columns
               THEN /\ pc' = "idle"
                    /\ fault' = "KeyError"
                    /\ UNCHANGED <<debits_df, learned>>
               ELSE /\ debits_df' = SelectSeq(df.df, LAMBDA row : row.DebitCredit = "Debit")
                    /\ pc' = "tab"
                    /\ fault' = fault
                    /\ learned' = {}
    /\ UNCHANGED <<categories, in_session, category_file, uploaded_file, edited_df,
                   idx, ret, category_totals>>

\* lines 95-104: the add button, with a name typed
AddCategory(new_category) ==
    /\ pc = "tab"
    /\ LET r == add_category(categories, category_file, new_category)
       IN /\ categories' = r.categories
          /\ category_file' = r.category_file
          /\ pc' = IF r.added THEN "startup" ELSE "idle"
          /\ fault' = IF r.added \/ GridColumns \subseteq uploaded_file.columns
                       THEN fault ELSE "KeyError"
          /\ IF ~r.added /\ GridColumns \subseteq uploaded_file.columns
             THEN category_totals' \in CategoryTotals(debits_df)
             ELSE category_totals' = category_totals
    /\ UNCHANGED <<in_session, uploaded_file, debits_df, edited_df, idx, ret, learned>>

\* lines 107-123: the save button, with the grid as the reviewer left it
ClickSave(choice) ==
    /\ pc = "tab"
    /\ GridColumns \subseteq uploaded_file.columns
    /\ TotalKeywords(categories)
           + Cardinality({ i \in DOMAIN debits_df : choice[i] # debits_df[i].Category })
         <= MaxKeywords
    /\ edited_df' = [i \in DOMAIN debits_df |->
                        [debits_df[i] EXCEPT !.Category = choice[i]]]
    /\ idx' = 1
    /\ pc' = "saving"
    /\ UNCHANGED <<categories, in_session, category_file, uploaded_file, debits_df,
                   fault, ret, category_totals, learned>>

\* a run with neither button set: lines 107-120 and 134-137
Render ==
    /\ pc = "tab"
    /\ pc' = "idle"
    /\ IF GridColumns \subseteq uploaded_file.columns
       THEN fault' = fault /\ category_totals' \in CategoryTotals(debits_df)
       ELSE fault' = "KeyError" /\ category_totals' = category_totals
    /\ UNCHANGED <<categories, in_session, category_file, uploaded_file, debits_df,
                   edited_df, idx, ret, learned>>

\* every row taken as edited
ChangedAlways == TRUE

\* the row the loop of line 124 is at
Changed == edited_df[idx].Category # debits_df[idx].Category

\* lines 124-137, one row; the summary follows the last one
SaveRow ==
    /\ pc = "saving"
    /\ idx \in DOMAIN edited_df
    /\ LET row == edited_df[idx]
           new_category == row["Category"]
           details == row["Details"]
           last == idx = Len(edited_df)
       IN IF ~Changed
          THEN /\ idx' = IF last THEN 0 ELSE idx + 1
               /\ pc' = IF last THEN "idle" ELSE "saving"
               /\ edited_df' = IF last THEN <<>> ELSE edited_df
               /\ ret' = "none"
               /\ IF last
                  THEN category_totals' \in CategoryTotals(debits_df)
                  ELSE category_totals' = category_totals
               /\ UNCHANGED <<categories, category_file, debits_df, fault, learned>>
          ELSE LET r == add_keywprd_to_category(categories, category_file,
                                                new_category, details)
                   raised == r.ret \in {"AttributeError", "KeyError"}
                   stop == last \/ raised
               IN /\ debits_df' = [debits_df EXCEPT ![idx].Category = new_category]
                  /\ categories' = r.categories
                  /\ category_file' = r.category_file
                  /\ ret' = r.ret
                  /\ fault' = IF raised THEN r.ret ELSE fault
                  /\ idx' = IF stop THEN 0 ELSE idx + 1
                  /\ pc' = IF stop THEN "idle" ELSE "saving"
                  /\ edited_df' = IF stop THEN <<>> ELSE edited_df
                  /\ IF last /\ ~raised
                     THEN category_totals' \in CategoryTotals(debits_df')
                     ELSE category_totals' = category_totals
                  /\ learned' =
                        IF details # NaN /\ new_category \in Keys(categories)
                        THEN { p \in learned : p[1] # Normalize(details) }
                                 \cup { <<Normalize(details), new_category>> }
                        ELSE learned
    /\ UNCHANGED <<in_session, uploaded_file>>

\* any interaction starts the script again.  The table the session holds is
\* assigned at line 89 before the run reads it, so its old value is dropped here.
Rerun ==
    /\ pc = "idle"
    /\ pc' = "startup"
    /\ fault' = "none"
    /\ ret' = "none"
    /\ debits_df' = <<>>
    /\ category_totals' = <<>>
    /\ UNCHANGED <<categories, in_session, category_file, uploaded_file,
                   edited_df, idx, learned>>

\* line 79: a file is chosen in the uploader
Upload(file) ==
    /\ pc = "idle"
    /\ uploaded_file' = [present |-> TRUE, columns |-> file.columns, rows |-> file.rows]
    /\ pc' = "startup"
    /\ fault' = "none"
    /\ ret' = "none"
    /\ debits_df' = <<>>
    /\ category_totals' = <<>>
    /\ UNCHANGED <<categories, in_session, category_file, edited_df, idx, learned>>

\* a new browser session: st.session_state and the widgets start empty
NewSession ==
    /\ pc = "idle"
    /\ in_session' = FALSE
    /\ categories' = <<>>
    /\ debits_df' = <<>>
    /\ category_totals' = <<>>
    /\ uploaded_file' = NoUpload
    /\ pc' = "startup"
    /\ fault' = "none"
    /\ ret' = "none"
    /\ UNCHANGED <<category_file, edited_df, idx, learned>>

Next ==
    \/ Startup
    \/ Main
    \/ \E new_category \in NewCategoryNames : AddCategory(new_category)
    \/ \E choice \in [DOMAIN debits_df -> Keys(categories) \cup {NoneCategory}] :
           ClickSave(choice)
    \/ Render
    \/ SaveRow
    \/ Rerun
    \/ \E file \in Uploads : Upload(file)
    \/ NewSession

Spec == Init /\ [][Next]_vars

----------------------------------------------------------------------------
(* The matcher over any rule store: a second specification *)

RawKeywords == { <<"S">>, <<" ", "s">>, <<"s", "t">> }

KeywordLists == {<<>>} \cup { <<k>> : k \in RawKeywords } \cup { << <<"S">>, <<"s", "t">> >> }

NameOrders ==
    { o \in [1..3 -> {"General", "Food", "Coffee"}] : \A i, j \in 1..3 : i # j => o[i] # o[j] }

RuleStores ==
    { [i \in 1..3 |-> [name |-> o[i], keywords |-> kws[i]]] :
          o \in NameOrders, kws \in [1..3 -> KeywordLists] }

InitMatcher ==
    /\ categories \in RuleStores
    /\ in_session = TRUE
    /\ category_file = SaveCategories(categories)
    /\ uploaded_file \in { [present |-> TRUE, columns |-> file.columns, rows |-> file.rows] :
                             file \in Uploads }
    /\ debits_df = <<>>
    /\ edited_df = <<>>
    /\ idx = 0
    /\ pc = "main"
    /\ fault = "none"
    /\ ret = "none"
    /\ category_totals = <<>>
    /\ learned = {}

NextMatcher == Main

SpecMatcher == InitMatcher /\ [][NextMatcher]_vars

----------------------------------------------------------------------------
(* The loader over well and badly formed files: a third specification *)

\* "12", "x" and "2024-01-05"
PlainAmount == <<"1", "2">>
TextAmount == <<"x">>
IsoDate == << <<"2", "0", "2", "4">>, "-", <<"0", "1">>, "-", <<"0", "5">> >>

CsvRows ==
    [Date : {ValidDate, IsoDate},
     Details : { <<"s", "t">>, NaN },
     Amount : {AmountWithComma, PlainAmount, TextAmount},
     DebitCredit : {"Debit", "Credit"}]

\* files with every column or with one column missing
CsvFiles ==
    { [columns |-> cols, rows |-> rows] :
          cols \in {AllColumns} \cup { AllColumns \ {c} : c \in AllColumns },
          rows \in UNION { [1..n -> CsvRows] : n \in 1..MaxRows } }

LoaderStores ==
    { DefaultCategories,
      Append(DefaultCategories, [name |-> "Food", keywords |-> << <<"s", "t">> >>]) }

InitLoader ==
    /\ categories \in LoaderStores
    /\ in_session = TRUE
    /\ category_file = SaveCategories(categories)
    /\ uploaded_file \in { [present |-> TRUE, columns |-> file.columns, rows |-> file.rows] :
                             file \in CsvFiles }
    /\ debits_df = <<>>
    /\ edited_df = <<>>
    /\ idx = 0
    /\ pc = "main"
    /\ fault = "none"
    /\ ret = "none"
    /\ category_totals = <<>>
    /\ learned = {}

NextLoader == Main \/ Render

SpecLoader == InitLoader /\ [][NextLoader]_vars

----------------------------------------------------------------------------
(* The summary over statements of several rows: a fourth specification *)

\* "600", "1,000" and "1,500"
SummaryAmounts ==
    { <<"6", "0", "0">>, <<"1", ",", "0", "0", "0">>, <<"1", ",", "5", "0", "0">> }

SummaryRows ==
    [Date : {ValidDate},
     Details : { <<"s">>, <<"t">>, <<"s", "t">> },
     Amount : SummaryAmounts,
     DebitCredit : {"Debit"}]

SummaryFiles ==
    { [columns |-> AllColumns, rows |-> rows] :
          rows \in UNION { [1..n -> SummaryRows] : n \in 1..MaxSummaryRows } }

\* "s" is a keyword of Food and "t" one of Coffee
SummaryStore ==
    << [name |-> "General", keywords |-> <<>>],
       [name |-> "Food", keywords |-> << <<"s">> >>],
       [name |-> "Coffee", keywords |-> << <<"t">> >>] >>

InitSummary ==
    /\ categories = SummaryStore
    /\ in_session = TRUE
    /\ category_file = SaveCategories(categories)
    /\ uploaded_file \in { [present |-> TRUE, columns |-> file.columns, rows |-> file.rows] :
                             file \in SummaryFiles }
    /\ debits_df = <<>>
    /\ edited_df = <<>>
    /\ idx = 0
    /\ pc = "main"
    /\ fault = "none"
    /\ ret = "none"
    /\ category_totals = <<>>
    /\ learned = {}

NextSummary == Main \/ Render

SpecSummary == InitSummary /\ [][NextSummary]_vars

----------------------------------------------------------------------------
(* Properties *)

\* the table is the matcher's output for the store as it stands
Loaded == pc = "tab"

\* positions of the categories other than "General" that list a keyword whose
\* lowercased, trimmed text is the lowercased, trimmed details
MatchingCategories(details, store) ==
    { c \in DOMAIN store :
          /\ store[c].name # "General"
          /\ \E k \in DOMAIN store[c].keywords :
                 Strip(Lower(store[c].keywords[k])) = Strip(Lower(details)) }

Highest(S) == CHOOSE m \in S : \A n \in S : n <= m
Lowest(S) == CHOOSE m \in S : \A n \in S : m <= n

\* the add_keywprd_to_category call the loop of line 124 is about to make
Calling == pc = "saving" /\ idx \in DOMAIN edited_df /\ Changed
CallCategory == edited_df[idx].Category
CallKeyword == edited_df[idx].Details

\* C1: after an edit of a transaction with details d to a category c of the
\* store, the next load assigns c to every transaction whose normalized details
\* are those of d.  Stated for non-blank d and c other than "General", the
\* case where a keyword is added and is looked at by the matcher.
C1_LearningTakesEffect ==
    [][(pc = "main" /\ pc' = "tab") =>
          \A i \in DOMAIN debits_df' : \A p \in learned :
              (/\ p[1] # <<>>
               /\ p[2] # "General"
               /\ p[1] = Normalize(debits_df'[i].Details))
              => debits_df'[i].Category = p[2]]_vars

\* C2: once the store is loaded it has the key "General", and the keyword
\* list of "General" is empty.
C2_GeneralExistsAndIsEmpty ==
    (in_session /\ pc # "startup") =>
        /\ "General" \in Keys(categories)
        /\ KeywordsOf(categories, "General") = <<>>

\* C3: a transaction matched by two or more categories other than "General"
\* carries the one that is last in the store's order.
C3_LastMatchWins ==
    Loaded =>
        \A i \in DOMAIN debits_df :
            LET m == MatchingCategories(debits_df[i].Details, categories)
            IN Cardinality(m) >= 2 => debits_df[i].Category = categories[Highest(m)].name

C3_Witness ==
    /\ Loaded
    /\ \E i \in DOMAIN debits_df :
           Cardinality(MatchingCategories(debits_df[i].Details, categories)) >= 2

\* C4: a transaction matched by two or more categories other than "General"
\* carries the one that is first in the store's order.
C4_FirstMatchWins ==
    Loaded =>
        \A i \in DOMAIN debits_df :
            LET m == MatchingCategories(debits_df[i].Details, categories)
            IN Cardinality(m) >= 2 => debits_df[i].Category = categories[Lowest(m)].name

NoDuplicateKeywords ==
    \A c \in DOMAIN categories :
        LET kws == categories[c].keywords
        IN /\ \A a, b \in DOMAIN kws : a # b => kws[a] # kws[b]
           /\ \A a \in DOMAIN kws : Strip(kws[a]) # <<>>

\* C6: a call with a keyword the category already lists returns False and
\* leaves the store and the file as they were; no keyword list holds a keyword
\* twice, and none holds a keyword that is empty once trimmed.
C6_AddKeywordIdempotent ==
    /\ []NoDuplicateKeywords
    /\ [][(/\ Calling
           /\ CallKeyword # NaN
           /\ CallCategory \in Keys(categories)
           /\ Strip(CallKeyword) \in Elems(KeywordsOf(categories, CallCategory)))
          => (/\ ret' = "False"
              /\ categories' = categories
              /\ category_file' = category_file)]_vars

\* a run ended by a call that found its non-blank keyword already listed
C6_Witness ==
    /\ pc = "idle"
    /\ ret = "False"
    /\ \E i \in DOMAIN debits_df :
           /\ debits_df[i].Details # NaN
           /\ Strip(debits_df[i].Details) # <<>>
           /\ debits_df[i].Category \in Keys(categories)
           /\ Strip(debits_df[i].Details)
                  \in Elems(KeywordsOf(categories, debits_df[i].Category))

\* C7: a call with a category that is not a key of the store, and a keyword
\* that is text, fails with the unknown-category error (KeyError) and leaves
\* the store and the file as they were.
C7_UnknownCategoryFails ==
    [][(Calling /\ CallKeyword # NaN /\ CallCategory \notin Keys(categories))
          => (/\ ret' = "KeyError"
              /\ categories' = categories
              /\ category_file' = category_file)]_vars

\* C8: a store that differs from the default has been written, and the file,
\* when written, loads back to exactly the store of the session.
C8_MutationsPersisted ==
    in_session =>
        /\ categories # << [name |-> "General", keywords |-> <<>>] >>
               => category_file.state = "json"
        /\ category_file.state = "json"
               => JsonLoad(category_file.members) = categories

\* a new session that has read back a store with a learned keyword
C8_Witness ==
    /\ pc = "main"
    /\ in_session
    /\ uploaded_file = NoUpload
    /\ TotalKeywords(categories) > 0
    /\ Len(categories) > 1

\* C9: a malformed rule file does not end the run with an unhandled fault.
C9_MalformedFileDoesNotCrash == fault # "JSONDecodeError"

\* C10: with no rule file, the loaded store is exactly {"General": []}.
C10_MissingFileGivesDefault ==
    (in_session /\ pc # "startup" /\ category_file.state = "missing")
        => categories = << [name |-> "General", keywords |-> <<>>] >>

C10_Witness ==
    /\ pc = "tab"
    /\ category_file.state = "missing"

\* C11: every transaction record carries a category that is a key of the
\* rule store or is "General".
C11_CategoryIsKnown ==
    \A i \in DOMAIN debits_df :
        debits_df[i].Category \in Keys(categories) \cup {"General"}

\* a file with a column missing, an amount that is no number or a date that is
\* not day, abbreviated month, four-digit year
MissingColumn(file) == ~(AllColumns \subseteq file.columns)
InvalidAmount(file) ==
    "Amount" \in file.columns /\ \E i \in DOMAIN file.rows : ~AmountParses(file.rows[i].Amount)
InvalidDate(file) ==
    "Date" \in file.columns /\ \E i \in DOMAIN file.rows : ~DateParses(file.rows[i].Date)

\* C12: a load is all-or-nothing: for a file with a non-numeric amount, a date
\* in another format or a required column missing, the run reports the one
\* load error and gets no table, and the rule store and its file are unchanged.
C12_LoadAllOrNothing ==
    [][(/\ pc = "main"
        /\ uploaded_file.present
        /\ \/ MissingColumn(uploaded_file)
           \/ InvalidAmount(uploaded_file)
           \/ InvalidDate(uploaded_file))
           => /\ ~load_transactions(uploaded_file, categories).ok
              /\ fault' = "st.error"
              /\ pc' = "idle"
              /\ debits_df' = debits_df
              /\ categories' = categories
              /\ category_file' = category_file]_vars

\* C13: adding a category under a name already present changes neither the
\* store nor the file; under a new name it adds exactly one entry, the name
\* with an empty keyword list, leaves every other category's keyword list as
\* it was, and writes the store to the file.
C13_AddCategoryFrame ==
    [][\A n \in NewCategoryNames :
          AddCategory(n) =>
              IF n \in Keys(categories)
              THEN categories' = categories /\ category_file' = category_file
              ELSE /\ Len(categories') = Len(categories) + 1
                   /\ Keys(categories') = Keys(categories) \cup {n}
                   /\ KeywordsOf(categories', n) = <<>>
                   /\ \A c \in Keys(categories) :
                          KeywordsOf(categories', c) = KeywordsOf(categories, c)
                   /\ category_file'.state = "json"
                   /\ JsonLoad(category_file'.members) = categories']_vars

\* a category has just been added to a store that holds learned keywords
C13_Witness ==
    /\ pc = "startup"
    /\ debits_df # <<>>
    /\ TotalKeywords(categories) > 0
    /\ categories[Len(categories)].name \in NewCategoryNames
    /\ categories[Len(categories)].keywords = <<>>

\* C14: every keyword held in the rule store is a trimmed, lowercase string.
C14_KeywordsTrimmedLowercase ==
    \A c \in DOMAIN categories :
        \A k \in DOMAIN categories[c].keywords :
            Normalize(categories[c].keywords[k]) = categories[c].keywords[k]

\* C14, amended: every keyword held in the rule store is a trimmed string,
\* in the letter case of the details it was learned from.
C14_KeywordsTrimmed ==
    \A c \in DOMAIN categories :
        \A k \in Elems(categories[c].keywords) : Strip(k) = k

\* a keyword has just been learned from details with blanks around them
C14_Witness ==
    /\ pc = "idle"
    /\ ret = "True"
    /\ \E i \in DOMAIN debits_df :
           /\ debits_df[i].Details = <<" ", "s", " ">>
           /\ debits_df[i].Category \in Keys(categories)
           /\ <<"s">> \in Elems(KeywordsOf(categories, debits_df[i].Category))

\* the run has reached line 137
Summarized == pc = "idle" /\ fault = "none" /\ uploaded_file.present

RECURSIVE AmountOf(_, _)
AmountOf(df, category) ==
    IF df = <<>> THEN 0
    ELSE (IF Head(df).Category = category THEN Head(df).Amount ELSE 0)
             + AmountOf(Tail(df), category)

\* C15: the summary has exactly one pair for each category that occurs among
\* the transactions, each total is the sum of the amounts of that category's
\* transactions, and the pairs are in order of non-increasing total.
C15_SummaryGroupsSumsSorts ==
    Summarized =>
        /\ \A r \in DOMAIN debits_df :
               debits_df[r].Category # NoneCategory =>
                   Cardinality({ i \in DOMAIN category_totals :
                                    category_totals[i].Category = debits_df[r].Category }) = 1
        /\ \A i \in DOMAIN category_totals :
               /\ \E r \in DOMAIN debits_df :
                      debits_df[r].Category = category_totals[i].Category
               /\ category_totals[i].Amount = AmountOf(debits_df, category_totals[i].Category)
        /\ \A i, j \in DOMAIN category_totals :
               i < j => category_totals[i].Amount >= category_totals[j].Amount

\* three transactions in two categories, the two of the second category
\* adding up to more than the one listed first in the table
C15_Witness ==
    /\ Summarized
    /\ Len(debits_df) = 3
    /\ Len(category_totals) = 2
    /\ debits_df[1].Category # debits_df[2].Category
    /\ debits_df[2].Category = debits_df[3].Category
    /\ debits_df[1].Amount > debits_df[2].Amount
    /\ debits_df[1].Amount > debits_df[3].Amount
    /\ category_totals[1].Category = debits_df[2].Category

\* the categories the rows of the table may carry before a run of the matcher
PriorCategories == [DOMAIN debits_df -> Keys(categories) \cup {NoneCategory}]

\* the table with its categories replaced by those of prior
Carrying(prior) == [i \in DOMAIN debits_df |-> [debits_df[i] EXCEPT !.Category = prior[i]]]

\* C16: the matcher is idempotent: run on its own output with the same rule
\* store, it gives the same category assignment as the first run, whatever
\* categories the transactions carried before the run.
C16_MatcherIdempotent ==
    Loaded =>
        \A prior \in PriorCategories :
            LET again == categorize_transaction(Carrying(prior), categories)
            IN again.ok /\ again.df = debits_df

\* a table with a matched transaction, and a second run on it from other
\* categories than the ones the first run gave
C16_Witness ==
    /\ Loaded
    /\ \E i \in DOMAIN debits_df : debits_df[i].Category # "General"
    /\ \E prior \in PriorCategories :
           /\ \A i \in DOMAIN debits_df : prior[i] # debits_df[i].Category
           /\ categorize_transaction(Carrying(prior), categories).df = debits_df

\* C17: when the loop processes an edited row whose category equals the one
\* recorded for that row, the table, the rule store in the session and the
\* file are unchanged, so no keyword is added for the row's details.
C17_UneditedRowIsNoOp ==
    [][(/\ pc = "saving"
        /\ idx \in DOMAIN edited_df
        /\ edited_df[idx].Category = debits_df[idx].Category)
           => /\ debits_df' = debits_df
              /\ categories' = categories
              /\ category_file' = category_file
              /\ ret' = "none"]_vars

\* the loop is at a row left as recorded, whose details are not yet a keyword
\* of its category
C17_Witness ==
    /\ pc = "saving"
    /\ idx \in DOMAIN edited_df
    /\ edited_df[idx].Category = debits_df[idx].Category
    /\ edited_df[idx].Category \in Keys(categories)
    /\ edited_df[idx].Details # NaN
    /\ Strip(edited_df[idx].Details) # <<>>
    /\ Strip(edited_df[idx].Details)
           \notin Elems(KeywordsOf(categories, edited_df[idx].Category))

\* every category of store a is one of store b, with at least its keywords
Grows(a, b) ==
    \A c \in Keys(a) :
        c \in Keys(b) /\ Elems(KeywordsOf(a, c)) \subseteq Elems(KeywordsOf(b, c))

\* C18: the rule store only grows: no step removes a category or a keyword
\* from the store of the session or from the file, and a session that starts
\* reads back all the file holds; so recategorizing a transaction from a to b
\* leaves its details a keyword of a.
C18_StoreOnlyGrows ==
    [][/\ (in_session /\ in_session' /\ categories' # categories) =>
              Grows(categories, categories')
       /\ (category_file.state = "json" /\ category_file' # category_file) =>
              /\ category_file'.state = "json"
              /\ Grows(JsonLoad(category_file.members), JsonLoad(category_file'.members))
       /\ (~in_session /\ in_session' /\ category_file.state = "json") =>
              Grows(JsonLoad(category_file.members), categories')]_vars

\* a transaction has just been moved to a second category, and its details
\* are a keyword of the first one still
C18_Witness ==
    /\ pc = "idle"
    /\ ret = "True"
    /\ \E i \in DOMAIN debits_df :
           \E a, b \in Keys(categories) :
               /\ a # b
               /\ debits_df[i].Category = b
               /\ Strip(debits_df[i].Details) \in Elems(KeywordsOf(categories, a))
               /\ Strip(debits_df[i].Details) \in Elems(KeywordsOf(categories, b))
====
